---- MODULE Spec2Model ----
(***************************************************************************)
(* Model of the Star micro framework (src/__init__.py, src/converters.py,  *)
(* src/utils.py): route registration, request dispatch with exact, typed,  *)
(* untyped and query matching, and the response written.                   *)
(*                                                                         *)
(* A Python str is a sequence of one-character strings; a dict is a        *)
(* function; an insertion-ordered dict of routes is a sequence of          *)
(* [url, func] records without repeated url.                               *)
(***************************************************************************)
EXTENDS Integers, Sequences, FiniteSets, TLC

(***************************************************************************)
(* Characters                                                              *)
(***************************************************************************)
LowerLetters == <<"a","b","c","d","e","f","g","h","i","j","k","l","m",
                  "n","o","p","q","r","s","t","u","v","w","x","y","z">>

UpperLetters == <<"A","B","C","D","E","F","G","H","I","J","K","L","M",
                  "N","O","P","Q","R","S","T","U","V","W","X","Y","Z">>

DigitChars == <<"0","1","2","3","4","5","6","7","8","9">>

Range(f) == { f[i] : i \in DOMAIN f }

DigitSet == Range(DigitChars)

LowerSet == Range(LowerLetters)

WordSet == Range(LowerLetters) \cup Range(UpperLetters) \cup Range(DigitChars) \cup {"_"}

\* \d of the re module, on the characters of the model
IsDigit(c) == c \in DigitSet

\* \w of the re module, on the characters of the model
IsWord(c) == c \in WordSet

\* str.upper() on one character
UpperChar(c) ==
    IF c \in LowerSet
    THEN UpperLetters[CHOOSE i \in DOMAIN LowerLetters : LowerLetters[i] = c]
    ELSE c

\* upper that leaves the letter case as it is
upper_same(s) == s

\* str.upper()
upper(s) == [i \in DOMAIN s |-> UpperChar(s[i])]

(***************************************************************************)
(* str methods used by the code                                            *)
(***************************************************************************)
RECURSIVE rstrip(_, _)
\* s.rstrip(c): drops every trailing occurrence of the character c
rstrip(s, c) ==
    IF s # <<>> /\ s[Len(s)] = c
    THEN rstrip(SubSeq(s, 1, Len(s) - 1), c)
    ELSE s

\* c in s
Contains(s, c) == \E i \in DOMAIN s : s[i] = c

\* index of the first occurrence of c in s (s contains c)
IndexOf(s, c) == CHOOSE i \in DOMAIN s : s[i] = c /\ \A j \in 1..(i - 1) : s[j] # c

RECURSIVE split(_, _)
\* s.split(c): the list of the parts of s between occurrences of c
split(s, c) ==
    IF ~Contains(s, c)
    THEN << s >>
    ELSE LET i == IndexOf(s, c)
         IN  << SubSeq(s, 1, i - 1) >> \o split(SubSeq(s, i + 1, Len(s)), c)

(***************************************************************************)
(* Star._parse_args                                                        *)
(***************************************************************************)
EmptyDict == << >>

\* d[key] = value on a dict
DictSet(d, key, value) ==
    [k \in DOMAIN d \cup {key} |-> IF k = key THEN value ELSE d[k]]

RECURSIVE ParseParts(_, _)
\* the loop of _parse_args over the parts of the query string; the tuple
\* assignment key, value = part.split("=") raises ValueError unless the
\* part has exactly one "="
ParseParts(parts, args) ==
    IF parts = <<>>
    THEN [exc |-> "none", args |-> args]
    ELSE LET part == Head(parts)
         IN  IF Contains(part, "=")
             THEN LET kv == split(part, "=")
                  IN  IF Len(kv) # 2
                      THEN [exc |-> "ValueError", args |-> args]
                      ELSE ParseParts(Tail(parts), DictSet(args, kv[1], kv[2]))
             ELSE ParseParts(Tail(parts), args)

_parse_args(path) ==
    IF ~Contains(path, "?")
    THEN [exc |-> "none", args |-> EmptyDict]
    ELSE ParseParts(split(split(path, "?")[2], "&"), EmptyDict)

(***************************************************************************)
(* Converters (src/converters.py)                                          *)
(***************************************************************************)
IntName == <<"i","n","t">>

StringName == <<"s","t","r","i","n","g">>

FloatName == <<"f","l","o","a","t">>

\* value of a decimal digit
DigitVal(c) == (CHOOSE i \in DOMAIN DigitChars : DigitChars[i] = c) - 1

RECURSIVE DecVal(_)
\* value of a non-empty run of decimal digits
DecVal(s) ==
    IF s = <<>> THEN 0
    ELSE 10 * DecVal(SubSeq(s, 1, Len(s) - 1)) + DigitVal(s[Len(s)])

RECURSIVE Pow10(_)
Pow10(n) == IF n = 0 THEN 1 ELSE 10 * Pow10(n - 1)

RECURSIVE Reduce10(_, _)
\* the decimal number m / 10^e with trailing zeroes of the fraction removed
Reduce10(m, e) ==
    IF e > 0 /\ m % 10 = 0 THEN Reduce10(m \div 10, e - 1)
    ELSE [type |-> "float", int |-> m, exp |-> e, str |-> <<>>]

\* a Python str as a parameter value
PyStr(value) == [type |-> "str", int |-> 0, exp |-> 0, str |-> value]

\* IntConverter.convert: int(value)
IntConvert(value) == [type |-> "int", int |-> DecVal(value), exp |-> 0, str |-> <<>>]

\* StringConverter.convert: the identity on str
StringConvert(value) == PyStr(value)

\* FloatConverter.convert: float(value) for value of the shape digits.digits,
\* as the decimal number it denotes
FloatConvert(value) ==
    LET i == IndexOf(value, ".")
        ip == SubSeq(value, 1, i - 1)
        fp == SubSeq(value, i + 1, Len(value))
    IN  Reduce10(DecVal(ip) * Pow10(Len(fp)) + DecVal(fp), Len(fp))

\* the regex attribute of the three converter classes
IntRegex == "\\d+"

StringRegex == "[^/]+"

FloatRegex == "\\d+\\.\\d+"

\* the converters dict: name -> class (its regex attribute)
converters == (IntName :> IntRegex) @@ (StringName :> StringRegex) @@ (FloatName :> FloatRegex)

\* converters[conv].convert(value)
Convert(conv, value) ==
    IF conv = IntName THEN IntConvert(value)
    ELSE IF conv = FloatName THEN FloatConvert(value)
    ELSE StringConvert(value)

\* a whole string matches a converter's regex (re semantics of the fragment)
AllDigits(v) == v # <<>> /\ \A i \in DOMAIN v : IsDigit(v[i])

FragMatch(regex, v) ==
    IF regex = IntRegex THEN AllDigits(v)
    ELSE IF regex = StringRegex THEN v # <<>> /\ ~Contains(v, "/")
    ELSE \E i \in DOMAIN v :
            /\ v[i] = "."
            /\ AllDigits(SubSeq(v, 1, i - 1))
            /\ AllDigits(SubSeq(v, i + 1, Len(v)))

(***************************************************************************)
(* Regular expressions: re.sub, re.findall and re.fullmatch as used by     *)
(* _handle_request.  A regular expression source is a sequence of tokens:  *)
(* a character of the pattern, or a named group (?P<name>regex) put in by  *)
(* a substitution.  Among the characters of the model only "." is a        *)
(* regular-expression operator.                                            *)
(***************************************************************************)
Chr(c) == [t |-> "chr", c |-> c, name |-> <<>>, regex |-> ""]

Grp(name, regex) == [t |-> "grp", c |-> "", name |-> name, regex |-> regex]

\* the characters of s as tokens
Lit(s) == [i \in DOMAIN s |-> Chr(s[i])]

RECURSIVE WordRun(_, _)
\* length of the longest run of \w characters of s that starts at index k
WordRun(s, k) ==
    IF k <= Len(s) /\ IsWord(s[k]) THEN 1 + WordRun(s, k + 1) ELSE 0

\* s has the text t at index i
HasAt(s, i, t) == i + Len(t) - 1 <= Len(s) /\ SubSeq(s, i, i + Len(t) - 1) = t

\* a match of <(int|string|float):(\w+)> in s at index i
TypedAt(s, i) ==
    LET convs == IF s[i] = "<"
                 THEN { c \in DOMAIN converters : HasAt(s, i, <<"<">> \o c \o <<":">>) }
                 ELSE {}
    IN  IF convs = {} THEN [ok |-> FALSE, conv |-> <<>>, var |-> <<>>, end |-> i]
        ELSE LET c == CHOOSE c \in convs : TRUE
                 k == i + Len(c) + 2
                 n == WordRun(s, k)
             IN  IF n >= 1 /\ HasAt(s, k + n, <<">">>)
                 THEN [ok |-> TRUE, conv |-> c, var |-> SubSeq(s, k, k + n - 1),
                       end |-> k + n]
                 ELSE [ok |-> FALSE, conv |-> <<>>, var |-> <<>>, end |-> i]

\* a match of <(\w+)> in s at index i
UntypedAt(s, i) ==
    LET n == WordRun(s, i + 1)
    IN  IF HasAt(s, i, <<"<">>) /\ n >= 1 /\ HasAt(s, i + 1 + n, <<">">>)
        THEN [ok |-> TRUE, var |-> SubSeq(s, i + 1, i + n), end |-> i + 1 + n]
        ELSE [ok |-> FALSE, var |-> <<>>, end |-> i]

\* Star._replace: the group a typed placeholder is replaced with
_replace(conv, var) == Grp(var, converters[conv])

RECURSIVE SubTyped(_, _)
SubTyped(s, i) ==
    IF i > Len(s) THEN <<>>
    ELSE LET m == TypedAt(s, i)
         IN  IF m.ok THEN << _replace(m.conv, m.var) >> \o SubTyped(s, m.end + 1)
             ELSE << Chr(s[i]) >> \o SubTyped(s, i + 1)

\* re.sub(r"<(int|string|float):(\w+)>", self._replace, normalized_url)
re_sub_typed(url) == SubTyped(url, 1)

RECURSIVE SubUntyped(_, _)
SubUntyped(s, i) ==
    IF i > Len(s) THEN <<>>
    ELSE LET m == UntypedAt(s, i)
         IN  IF m.ok
             THEN << Grp(<<"v","a","r">>, converters[StringName]) >>
                     \o SubUntyped(s, m.end + 1)
             ELSE << Chr(s[i]) >> \o SubUntyped(s, i + 1)

\* re.sub(r"<(\w+)>", f"(?P<var>{converters['string'].regex})", normalized_url)
re_sub_untyped(url) == SubUntyped(url, 1)

RECURSIVE FindTyped(_, _)
FindTyped(s, i) ==
    IF i > Len(s) THEN <<>>
    ELSE LET m == TypedAt(s, i)
         IN  IF m.ok THEN << m.conv >> \o FindTyped(s, m.end + 1)
             ELSE FindTyped(s, i + 1)

\* re.findall(r"<(int|string|float):\w+>", normalized_url): one group, so a
\* list of str
re_findall_convs(url) == FindTyped(url, 1)

\* the names of the groups of a regular expression, in order
GroupNames(re) ==
    LET idx == { i \in DOMAIN re : re[i].t = "grp" }
    IN  [i \in idx |-> re[i].name]

\* compiling raises re.error for a group name that is no identifier and for
\* a group name defined twice
CompileFails(re) ==
    LET g == GroupNames(re)
    IN  \/ \E i \in DOMAIN g : IsDigit(g[i][1])
        \/ \E i, j \in DOMAIN g : i # j /\ g[i] = g[j]

RECURSIVE MatchAt(_, _, _, _)
RECURSIVE MatchGroup(_, _, _, _, _)
\* backtracking match of re[i..] against s[j..] up to the end of s:
\* << >> when there is none, else << groups >> of the first match found
MatchAt(re, i, s, j) ==
    IF i > Len(re)
    THEN IF j > Len(s) THEN << <<>> >> ELSE <<>>
    ELSE IF re[i].t = "chr"
         THEN IF j <= Len(s) /\ (re[i].c = "." \/ re[i].c = s[j])
              THEN MatchAt(re, i + 1, s, j + 1)
              ELSE <<>>
         ELSE MatchGroup(re, i, s, j, Len(s) - j + 1)

\* the group re[i] tried on the n characters of s from j, longest first
MatchGroup(re, i, s, j, n) ==
    IF n < 1 THEN <<>>
    ELSE IF FragMatch(re[i].regex, SubSeq(s, j, j + n - 1))
         THEN LET r == MatchAt(re, i + 1, s, j + n)
              IN  IF r # <<>>
                  THEN << << SubSeq(s, j, j + n - 1) >> \o r[1] >>
                  ELSE MatchGroup(re, i, s, j, n - 1)
         ELSE MatchGroup(re, i, s, j, n - 1)

\* re.fullmatch(regex_pattern, path): re.error, no match, or match.groups()
re_fullmatch(re, path) ==
    IF CompileFails(re)
    THEN [exc |-> "re.error", match |-> FALSE, groups |-> <<>>]
    ELSE LET r == MatchAt(re, 1, path, 1)
         IN  IF r = <<>>
             THEN [exc |-> "none", match |-> FALSE, groups |-> <<>>]
             ELSE [exc |-> "none", match |-> TRUE, groups |-> r[1]]

(***************************************************************************)
(* Handlers registered by the application, and utils.render                *)
(***************************************************************************)
\* the functions the application registers: h1 and h2 return their own
\* name as the body, boom raises Exception("boom")
Handlers == {"h1", "h2", "boom"}

\* func(*params) at line 145
Call(func, params) ==
    IF func = "boom"
    THEN [exc |-> "Exception", text |-> "boom"]
    ELSE [exc |-> "none", text |-> func]

ErrorTemplate == "star/templates/error.html"

\* render(template, {"title": title, "message": message}): the template
\* with its two placeholders filled in
render(template, title, message) ==
    [template |-> template, title |-> title, message |-> message, text |-> ""]

\* the body a handler returned
Body(text) == [template |-> "", title |-> "", message |-> "", text |-> text]

NoBody == Body("")

(***************************************************************************)
(* Star._send_response and Star._handle_request                            *)
(***************************************************************************)
Min(a, b) == IF a < b THEN a ELSE b

\* the result of one dispatch call: exc is the exception that left the
\* call ("none" when it returned), path the normalized path of line 79,
\* status the status line sent (0: none), ctype the Content-type header
\* sent, body what was written to wfile, calls the handler invocations
\* made, idx and rule the candidate and the rule that matched, events the
\* order in which the response was produced
Result(exc, path, status, ctype, body, calls, idx, rule, events) ==
    [exc |-> exc, path |-> path, status |-> status, ctype |-> ctype,
     body |-> body, calls |-> calls, idx |-> idx, rule |-> rule,
     events |-> events]

\* a dispatch call left by the exception exc before anything was sent
Raised(exc, path) == Result(exc, path, 0, "", NoBody, <<>>, 0, "", <<>>)

\* _send_response that runs the handler first and answers 500 when it raises
_send_response_late(func, params, path, idx, rule) ==
    LET r == Call(func, params)
        calls == << [func |-> func, params |-> params] >>
        events == << "call", "send_response", "send_header", "end_headers", "write" >>
    IN  IF r.exc = "none"
        THEN Result("none", path, 200, "text/html", Body(r.text),
                    calls, idx, rule, events)
        ELSE Result("none", path, 500, "text/html",
                    render(ErrorTemplate, "500 Internal Server Error", r.text),
                    calls, idx, rule, events)

\* _send_response(handler, func, params), for candidate idx matched by rule
_send_response(func, params, path, idx, rule) ==
    LET r == Call(func, params)
        calls == << [func |-> func, params |-> params] >>
        events == << "send_response", "send_header", "end_headers", "call", "write" >>
    IN  IF r.exc = "none"
        THEN Result("none", path, 200, "text/html", Body(r.text),
                    calls, idx, rule, events)
        ELSE Result("none", path, 200, "text/html",
                    render(ErrorTemplate, "500 Internal Server Error", r.text),
                    calls, idx, rule, events)

\* the list comprehension of lines 99-102: c[0] is the first character of
\* the converter name c, used as the key into converters
ConvertAll(convs, groups) ==
    LET n == Min(Len(convs), Len(groups))
        key(k) == << convs[k][1] >>
    IN  IF \E k \in 1..n : key(k) \notin DOMAIN converters
        THEN [exc |-> "KeyError", params |-> <<>>]
        ELSE [exc |-> "none",
              params |-> [k \in 1..n |-> Convert(key(k), groups[k])]]

\* the loop variables matched and params, the rule that set matched, and
\* the exception raised in the iteration ("none" when there is none)
Cand(exc, matched, rule, params) ==
    [exc |-> exc, matched |-> matched, rule |-> rule, params |-> params]

\* lines 88-89: exact match
ExactRule(st, url, path) ==
    IF path = rstrip(url, "/")
    THEN Cand("none", TRUE, "exact", st.params)
    ELSE st

\* lines 92-103: dynamic route with type converters
TypedRule(st, url, path) ==
    IF st.exc = "none" /\ path # <<"/">> /\ ~st.matched
    THEN LET m == re_fullmatch(re_sub_typed(rstrip(url, "/")), path)
         IN  IF m.exc # "none" THEN Cand(m.exc, FALSE, "", st.params)
             ELSE IF m.match
                  THEN LET c == ConvertAll(re_findall_convs(rstrip(url, "/")),
                                           m.groups)
                       IN  IF c.exc # "none"
                           THEN Cand(c.exc, FALSE, "", st.params)
                           ELSE Cand("none", TRUE, "typed", c.params)
                  ELSE st
    ELSE st

\* lines 106-113: dynamic route without type
UntypedRule(st, url, path) ==
    IF st.exc = "none" /\ path # <<"/">> /\ ~st.matched
    THEN LET m == re_fullmatch(re_sub_untyped(rstrip(url, "/")), path)
         IN  IF m.exc # "none" THEN Cand(m.exc, FALSE, "", st.params)
             ELSE IF m.match
                  THEN Cand("none", TRUE, "untyped",
                            [k \in DOMAIN m.groups |-> PyStr(m.groups[k])])
                  ELSE st
    ELSE st

\* lines 116-117: query string match
QueryRule(st, url, path, args) ==
    IF st.exc = "none" /\ ~st.matched /\ DOMAIN args # {}
                       /\ path = rstrip(url, "/")
    THEN Cand("none", TRUE, "query", st.params)
    ELSE st

\* one iteration of the loop of lines 84-121 for the candidate url, up to
\* the test of matched at line 119
Candidate(url, path, args) ==
    QueryRule(
        UntypedRule(
            TypedRule(
                ExactRule(Cand("none", FALSE, "", <<>>), url, path),
                url, path),
            url, path),
        url, path, args)

\* the 404 response of lines 124-132
NotFound(path) ==
    Result("none", path, 404, "text/html",
           render(ErrorTemplate, "404 Not Found", "Page Not Found"),
           <<>>, 0, "", << "send_response", "send_header", "end_headers", "write" >>)

RECURSIVE Scan_exact(_, _, _, _)
\* a scan that dispatches to a candidate equal to the path before any other
Scan_exact(routes, i, path, args) ==
    IF \E j \in DOMAIN routes : j >= i /\ routes[j].url = path
    THEN LET j == CHOOSE j \in DOMAIN routes : j >= i /\ routes[j].url = path
         IN  _send_response(routes[j].func, <<>>, path, j, "exact")
    ELSE IF i > Len(routes) THEN NotFound(path)
    ELSE LET c == Candidate(routes[i].url, path, args)
         IN  IF c.exc # "none"
             THEN Raised(c.exc, path)
             ELSE IF c.matched
                  THEN _send_response(routes[i].func, c.params, path, i, c.rule)
                  ELSE Scan_exact(routes, i + 1, path, args)

RECURSIVE Scan(_, _, _, _)
\* the loop of lines 84-121 from candidate i on, then the 404 response
Scan(routes, i, path, args) ==
    IF i > Len(routes) THEN NotFound(path)
    ELSE LET c == Candidate(routes[i].url, path, args)
         IN  IF c.exc # "none"
             THEN Raised(c.exc, path)
             ELSE IF c.matched
                  THEN _send_response(routes[i].func, c.params, path, i, c.rule)
                  ELSE Scan(routes, i + 1, path, args)

\* path of line 79
RequestPath(raw) == rstrip(split(raw, "?")[1], "/")

\* _handle_request(handler, routes) for handler.path = raw
_handle_request(raw, routes) ==
    LET a == _parse_args(raw)
    IN  IF a.exc # "none"
        THEN Raised(a.exc, RequestPath(raw))
        ELSE Scan(routes, 1, RequestPath(raw), a.args)

(***************************************************************************)
(* Star.route: the route tables and registration                           *)
(***************************************************************************)
\* a dict assignment that moves an existing key to the end
DictPut_move(routes, key, func) ==
    Append(SelectSeq(routes, LAMBDA e : e.url # key), [url |-> key, func |-> func])

\* routes[key] = func on an insertion-ordered dict: an existing key keeps
\* its position, a new key goes to the end
DictPut(routes, key, func) ==
    IF \E i \in DOMAIN routes : routes[i].url = key
    THEN [i \in DOMAIN routes |->
            IF routes[i].url = key THEN [url |-> key, func |-> func]
            ELSE routes[i]]
    ELSE Append(routes, [url |-> key, func |-> func])

\* the keys of a route table, in insertion order
Keys(routes) == [i \in DOMAIN routes |-> routes[i].url]

RECURSIVE RouteLoop(_, _, _, _, _)
\* the loop of wrapper (lines 33-40) over the method list
RouteLoop(methods, url, func, get, post) ==
    IF methods = <<>>
    THEN [exc |-> "none", get |-> get, post |-> post]
    ELSE LET m_upper == upper(Head(methods))
         IN  IF m_upper = <<"G","E","T">>
             THEN RouteLoop(Tail(methods), url, func,
                            DictPut(get, rstrip(url, "/"), func), post)
             ELSE IF m_upper = <<"P","O","S","T">>
                  THEN RouteLoop(Tail(methods), url, func,
                                 get, DictPut(post, rstrip(url, "/"), func))
                  ELSE [exc |-> "ValueError", get |-> get, post |-> post]

\* a method argument of route: a str, or a list of str
MethodStr(m) == [isList |-> FALSE, str |-> m, lst |-> <<>>]

MethodList(l) == [isList |-> TRUE, str |-> <<>>, lst |-> l]

\* route(url, method)(func), lines 29-41
route(url, method, func, get, post) ==
    RouteLoop(IF method.isList THEN method.lst ELSE << method.str >>,
              url, func, get, post)

(***************************************************************************)
(* Inputs                                                                  *)
(***************************************************************************)
\* bound on the number of routes registered in the two tables together
MaxRoutes == 2

\* /
UrlRoot == <<"/">>

\* //
UrlRootS == <<"/","/">>

\* /a
UrlA == <<"/","a">>

\* /a/
UrlAS == <<"/","a","/">>

\* /u/<int:i>
UrlInt == <<"/","u","/","<","i","n","t",":","i",">">>

\* /p/<float:p>
UrlFloat == <<"/","p","/","<","f","l","o","a","t",":","p",">">>

\* /i/<s>
UrlStr == <<"/","i","/","<","s",">">>

\* /<s>
UrlSeg == <<"/","<","s",">">>

\* /<s>/<t>
UrlTwo == <<"/","<","s",">","/","<","t",">">>

\* /a.b
UrlDot == <<"/","a",".","b">>

\* /m/<int:x>/<y>
UrlMix == <<"/","m","/","<","i","n","t",":","x",">","/","<","y",">">>

\* /
PRoot == <<"/">>

\* //
PRootS == <<"/","/">>

\* /a
PA == <<"/","a">>

\* /a/
PAS == <<"/","a","/">>

\* /a//
PASS == <<"/","a","/","/">>

\* /b
PB == <<"/","b">>

\* /u/42
PInt == <<"/","u","/","4","2">>

\* /u/<int:i>
PIntLit == <<"/","u","/","<","i","n","t",":","i",">">>

\* /u/ab
PIntBad == <<"/","u","/","a","b">>

\* /p/3.14
PFloat == <<"/","p","/","3",".","1","4">>

\* /p/3
PFloatBad == <<"/","p","/","3">>

\* /i/ab
PStr == <<"/","i","/","a","b">>

\* /i/a/b
PStrBad == <<"/","i","/","a","/","b">>

\* /x/y
PTwo == <<"/","x","/","y">>

\* /a?x=1&y=2
PQuery == <<"/","a","?","x","=","1","&","y","=","2">>

\* /a?x=1=2
PQueryEq == <<"/","a","?","x","=","1","=","2">>

\* /a?x=1&x=2
PQueryDup == <<"/","a","?","x","=","1","&","x","=","2">>

\* /a?x
PQueryNoEq == <<"/","a","?","x">>

\* /b?x=1
PQueryMiss == <<"/","b","?","x","=","1">>

\* /a.b
PDot == <<"/","a",".","b">>

\* /axb
PDotAny == <<"/","a","x","b">>

\* /m/<int:x>/f
PMixU == <<"/","m","/","<","i","n","t",":","x",">","/","f">>

\* /m/1/<y>
PMixT == <<"/","m","/","1","/","<","y",">">>

\* the urls registered under Spec, with both tables in use
Urls == {UrlA, UrlAS, UrlSeg}

\* the urls registered under SpecGet, with the GET table only
AllUrls == {UrlRoot, UrlRootS, UrlA, UrlAS, UrlInt, UrlFloat, UrlStr, UrlTwo,
            UrlDot, UrlMix}

\* the method arguments of route under Spec
Methods == { MethodStr(<<"G","E","T">>), MethodStr(<<"g","e","t">>),
             MethodStr(<<"P","O","S","T">>), MethodStr(<<"P","U","T">>),
             MethodList(<< <<"G","E","T">>, <<"P","o","s","t">> >>),
             MethodList(<< <<"G","E","T">>, <<"P","U","T">> >>) }

GetOnly == { MethodStr(<<"G","E","T">>) }

\* the request paths served under Spec
Paths == {PA, PB, PQuery, PQueryEq}

\* the request paths served under SpecGet
AllPaths == {PRoot, PRootS, PA, PAS, PASS, PB, PInt, PIntLit, PIntBad, PFloat, PFloatBad,
             PStr, PStrBad, PTwo, PQuery, PQueryEq, PQueryDup, PQueryNoEq,
             PQueryMiss, PDot, PDotAny, PMixU, PMixT}

(***************************************************************************)
(* State                                                                   *)
(***************************************************************************)
VARIABLES
    get_routes,     \* Star.get_routes
    post_routes,    \* Star.post_routes
    Request_args,   \* the class attribute Request.args
    op,             \* the last operation: "init", "route", "run" or "request"
    reg,            \* the last route call: its arguments and exception, and
                    \* the handlers its url was bound to before the call
    req,            \* the last request: its method and handler.path
    resp,           \* what the last dispatch call did
    seen,           \* Request.args as read by the handler it invoked
    workers         \* per worker, the request it is dispatching: its method
                    \* and handler.path, "" and <<>> when it has none

vars == << get_routes, post_routes, Request_args, op, reg, req, resp, seen,
          workers >>

\* the binding of key in a route table, "" when it has none
Bound(routes, key) ==
    IF \E i \in DOMAIN routes : routes[i].url = key
    THEN routes[CHOOSE i \in DOMAIN routes : routes[i].url = key].func
    ELSE ""

NoReg == [url |-> <<>>, method |-> MethodList(<<>>), func |-> "", exc |-> "none",
          was |-> [get |-> "", post |-> ""]]

\* before is Request.args as the request found it
NoReq == [method |-> "", path |-> <<>>, before |-> EmptyDict]

\* the threads of control that call _handle_request
Workers == {"w1", "w2"}

NoResp == Raised("none", <<>>)

\* Star.__init__ and the class body of Request
Init ==
    /\ get_routes = <<>>
    /\ post_routes = <<>>
    /\ Request_args = EmptyDict
    /\ op = "init"
    /\ reg = NoReg
    /\ req = NoReq
    /\ resp = NoResp
    /\ seen = <<>>
    /\ workers = [w \in Workers |-> NoReq]

\* the application is still registering routes: run has not been called
Setup == op \in {"init", "route"}

\* @star.route(url, method) applied to func
Route(url, method, func) ==
    \E r \in { route(url, method, func, get_routes, post_routes) } :
        /\ Setup
        /\ Len(r.get) + Len(r.post) <= MaxRoutes
        /\ get_routes' = r.get
        /\ post_routes' = r.post
        /\ op' = "route"
        /\ reg' = [url |-> url, method |-> method, func |-> func, exc |-> r.exc,
                   was |-> [get |-> Bound(get_routes, rstrip(url, "/")),
                            post |-> Bound(post_routes, rstrip(url, "/"))]]
        /\ req' = NoReq
        /\ resp' = NoResp
        /\ seen' = <<>>
        /\ UNCHANGED << Request_args, workers >>

\* Star.run: the server starts and serves requests until it is stopped
Run ==
    /\ Setup
    /\ op' = "run"
    /\ reg' = NoReg
    /\ UNCHANGED << get_routes, post_routes, Request_args, req, resp, seen,
                    workers >>

\* a dispatch call that assigns Request.args only when the request has a
\* query string
Serve_keep(method, raw, routes) ==
    \E a \in { _parse_args(raw) }, r \in { _handle_request(raw, routes) } :
        /\ ~Setup
        /\ Request_args' = IF a.exc = "none" /\ Contains(raw, "?")
                           THEN a.args ELSE Request_args
        /\ op' = "request"
        /\ req' = [method |-> method, path |-> raw, before |-> Request_args]
        /\ resp' = r
        /\ seen' = [k \in DOMAIN r.calls |-> Request_args']
        /\ reg' = NoReg
        /\ UNCHANGED << get_routes, post_routes, workers >>

\* one call of _handle_request for handler.path = raw on a route table
Serve(method, raw, routes) ==
    \E a \in { _parse_args(raw) }, r \in { _handle_request(raw, routes) } :
        /\ ~Setup
        /\ Request_args' = IF a.exc = "none" THEN a.args ELSE Request_args
        /\ op' = "request"
        /\ req' = [method |-> method, path |-> raw, before |-> Request_args]
        /\ resp' = r
        /\ seen' = [k \in DOMAIN r.calls |-> Request_args']
        /\ reg' = NoReg
        /\ UNCHANGED << get_routes, post_routes, workers >>

\* Handler.do_GET
do_GET(raw) == Serve("GET", raw, get_routes)

\* a do_POST that dispatches on the GET table
do_POST_get(raw) == Serve("POST", raw, get_routes)

\* Handler.do_POST
do_POST(raw) == Serve("POST", raw, post_routes)

RouteAny == \E url \in Urls, method \in Methods, func \in Handlers :
                Route(url, method, func)

GetAny == \E raw \in Paths : do_GET(raw)

PostAny == \E raw \in Paths : do_POST(raw)

Next == RouteAny \/ Run \/ GetAny \/ PostAny

Spec == Init /\ [][Next]_vars

\* the GET side alone, on every url and path of the model: the tables the
\* application can build, and the first request served on each
RouteGet == \E url \in AllUrls, method \in GetOnly, func \in Handlers :
                Route(url, method, func)

GetAll == \E raw \in AllPaths : op = "run" /\ do_GET(raw)

NextGet == RouteGet \/ Run \/ GetAll

SpecGet == Init /\ [][NextGet]_vars

\* lines 79-80 of _handle_request run by the worker w for handler.path = raw:
\* the assignment to the class attribute Request.args; when _parse_args
\* raises, the call ends there
Accept(w, method, raw) ==
    \E a \in { _parse_args(raw) } :
        /\ ~Setup
        /\ workers[w] = NoReq
        /\ reg' = NoReg
        /\ IF a.exc = "none"
           THEN /\ Request_args' = a.args
                /\ workers' = [workers EXCEPT ![w] =
                       [method |-> method, path |-> raw, before |-> Request_args]]
                /\ op' = "accept"
                /\ UNCHANGED << req, resp, seen >>
           ELSE /\ op' = "request"
                /\ req' = [method |-> method, path |-> raw, before |-> Request_args]
                /\ resp' = Raised(a.exc, RequestPath(raw))
                /\ seen' = <<>>
                /\ UNCHANGED << Request_args, workers >>
        /\ UNCHANGED << get_routes, post_routes >>

\* lines 81-132 of _handle_request run by the worker w: the scan of the
\* table of its request's method and the call of the handler, which reads
\* Request.args as it is by then
Dispatch(w) ==
    \E r \in { Scan(IF workers[w].method = "POST" THEN post_routes ELSE get_routes,
                     1, RequestPath(workers[w].path), Request_args) } :
        /\ workers[w] # NoReq
        /\ op' = "request"
        /\ req' = workers[w]
        /\ resp' = r
        /\ seen' = [k \in DOMAIN r.calls |-> Request_args]
        /\ workers' = [workers EXCEPT ![w] = NoReq]
        /\ reg' = NoReg
        /\ UNCHANGED << get_routes, post_routes, Request_args >>

\* the requests of the threaded runs
WorkerPaths == {PA, PB, PQuery, PQueryMiss, PQueryEq}

RouteOne == \E method \in { MethodStr(<<"G","E","T">>), MethodStr(<<"P","O","S","T">>) } :
                Route(UrlA, method, "h1")

AcceptAny == \E w \in Workers, method \in {"GET", "POST"}, raw \in WorkerPaths :
                 Accept(w, method, raw)

DispatchAny == \E w \in Workers : Dispatch(w)

NextWorkers == RouteOne \/ Run \/ AcceptAny \/ DispatchAny

\* _handle_request called from two threads of control, interleaved at the
\* assignment to Request.args
SpecWorkers == Init /\ [][NextWorkers]_vars

(***************************************************************************)
(* Properties                                                              *)
(***************************************************************************)
\* the last operation was a dispatch call
Served == op = "request"

\* the route table the last request was dispatched on
Table == IF req.method = "POST" THEN post_routes ELSE get_routes

\* url has a typed placeholder and path is url with every typed
\* placeholder replaced by a text of its converter's fragment
FitsTyped(url, path) ==
    /\ re_findall_convs(url) # <<>>
    /\ MatchAt(re_sub_typed(url), 1, path, 1) # <<>>

\* url has untyped placeholders only and path is url with every placeholder
\* replaced by a non-empty text without "/"
FitsUntyped(url, path) ==
    /\ re_findall_convs(url) = <<>>
    /\ \E k \in DOMAIN re_sub_untyped(url) : re_sub_untyped(url)[k].t = "grp"
    /\ MatchAt(re_sub_untyped(url), 1, path, 1) # <<>>

\* url has no placeholder
Literal(url) ==
    /\ re_findall_convs(url) = <<>>
    /\ \A k \in DOMAIN re_sub_untyped(url) : re_sub_untyped(url)[k].t = "chr"

\* one of the match rules of section 4.4 holds of the pattern url and path:
\* equality, or a full match of url compiled as typed or as untyped
Matches(url, path) ==
    \/ path = url
    \/ MatchAt(re_sub_typed(url), 1, path, 1) # <<>>
    \/ MatchAt(re_sub_untyped(url), 1, path, 1) # <<>>

\* no candidate before the i-th matches the path of the last request
FirstFit(i) == \A j \in 1..(i - 1) : ~Matches(Table[j].url, resp.path)

\* C1: a request whose normalized path matches the compiled pattern of a
\* route with typed placeholders, no earlier candidate matching, invokes
\* that route's handler exactly once with the captured values converted by
\* their declared converters, in placeholder order, and ends in MATCHED
C1_TypedDispatch ==
    Served =>
        \A i \in DOMAIN Table :
            LET url == Table[i].url
                convs == re_findall_convs(url)
                m == MatchAt(re_sub_typed(url), 1, resp.path, 1)
            IN  (FitsTyped(url, resp.path) /\ FirstFit(i)) =>
                    /\ resp.exc = "none"
                    /\ resp.idx = i
                    /\ resp.status = 200
                    /\ resp.calls =
                         << [func |-> Table[i].func,
                             params |-> [k \in DOMAIN convs |->
                                            Convert(convs[k], m[1][k])]] >>

\* C2: every dispatch call ends in MATCHED, NOT_FOUND or MATCHED_THEN_FAILED
\* with a response body written; no failure leaves the dispatch call
C2_NothingPropagates ==
    Served =>
        /\ resp.exc = "none"
        /\ \/ resp.status = 404 /\ resp.calls = <<>>
           \/ resp.status = 200 /\ Len(resp.calls) = 1
        /\ \E k \in DOMAIN resp.events : resp.events[k] = "write"

\* C3: a request whose normalized path matches a route with one or more
\* untyped placeholders and no typed one, each placeholder bound to a
\* non-empty run of non-"/" characters, dispatches to that route's handler
\* with the captured raw strings as parameters, in placeholder order
C3_UntypedDispatch ==
    Served =>
        \A i \in DOMAIN Table :
            LET url == Table[i].url
                m == MatchAt(re_sub_untyped(url), 1, resp.path, 1)
            IN  (FitsUntyped(url, resp.path) /\ FirstFit(i)) =>
                    /\ resp.exc = "none"
                    /\ resp.idx = i
                    /\ resp.calls =
                         << [func |-> Table[i].func,
                             params |-> [k \in DOMAIN m[1] |-> PyStr(m[1][k])]] >>

\* C4: a request to a registered placeholder-free pattern P, and one to
\* P + "/", dispatch to the handler registered for P with no parameters when
\* no earlier candidate matches; registering P + "/" gives the entry of P
C4_TrailingSlash ==
    /\ Served =>
        \A i \in DOMAIN Table :
            LET P == IF Table[i].url = <<>> THEN <<"/">> ELSE Table[i].url
            IN  (/\ Literal(Table[i].url)
                 /\ req.path \in {P, P \o <<"/">>}
                 /\ FirstFit(i)) =>
                    /\ resp.exc = "none"
                    /\ resp.idx = i
                    /\ resp.calls = << [func |-> Table[i].func, params |-> <<>>] >>
    /\ (op = "route" /\ reg.method = MethodStr(<<"G","E","T">>)) =>
        \A P \in AllUrls :
            reg.url \in {P, P \o <<"/">>} =>
                \E i \in DOMAIN get_routes :
                    get_routes[i] = [url |-> rstrip(P, "/"), func |-> reg.func]

\* C5: normalization of a registered pattern and of an incoming
\* path removes exactly one trailing slash and nothing else
C5_StripsOneSlash ==
    LET StripOne(t) == IF t # <<>> /\ t[Len(t)] = "/"
                       THEN SubSeq(t, 1, Len(t) - 1) ELSE t
        NoQuery(t) == IF Contains(t, "?") THEN SubSeq(t, 1, IndexOf(t, "?") - 1)
                      ELSE t
    IN  /\ Served => resp.path = StripOne(NoQuery(req.path))
        /\ (op = "route" /\ reg.method = MethodStr(<<"G","E","T">>)) =>
              Bound(get_routes, StripOne(reg.url)) = reg.func

\* C6: when no candidate of the method table matches the normalized path
\* the response is 404 with the error page "404 Not Found" / "Page Not
\* Found" and no handler is invoked; 404 is produced only in that case
C6_NotFound ==
    Served =>
        /\ (\A i \in DOMAIN Table : ~Matches(Table[i].url, resp.path)) <=>
               resp.status = 404
        /\ resp.status = 404 =>
               /\ resp.body = render(ErrorTemplate, "404 Not Found", "Page Not Found")
               /\ resp.calls = <<>>

\* C7: when the handler of the matched route raises, status 200 and the
\* headers were sent before it ran and are the only ones sent, the body is
\* the error page "500 Internal Server Error" with the failure's text, and
\* the failure does not leave the dispatch call
C7_HandlerFailure ==
    (Served /\ resp.calls # <<>> /\ resp.calls[1].func = "boom") =>
        /\ resp.exc = "none"
        /\ resp.status = 200
        /\ resp.ctype = "text/html"
        /\ resp.body = render(ErrorTemplate, "500 Internal Server Error", "boom")
        /\ \E c \in DOMAIN resp.events :
              /\ resp.events[c] = "call"
              /\ \E h \in 1..(c - 1) : resp.events[h] = "send_response"
              /\ \E h \in 1..(c - 1) : resp.events[h] = "end_headers"
              /\ \A h \in c..Len(resp.events) :
                    resp.events[h] \notin {"send_response", "send_header"}

\* a request matched a route bound to the raising handler and the error
\* page was written
C7_Witness ==
    /\ Served
    /\ resp.calls = << [func |-> "boom", params |-> <<>>] >>
    /\ resp.body.title = "500 Internal Server Error"
    /\ resp.rule = "exact"

\* a step keeps the route tables as C8 says
RegistrationStep ==
    LET GET == <<"G","E","T">>
        POST == <<"P","O","S","T">>
        ms == IF reg'.method.isList THEN reg'.method.lst ELSE << reg'.method.str >>
        \* the loop over the method list reaches a method named name
        Registers(name) ==
            \E k \in DOMAIN ms :
                /\ upper(ms[k]) = name
                /\ \A j \in 1..(k - 1) : upper(ms[j]) \in {GET, POST}
        key == rstrip(reg'.url, "/")
        Kept(old, new, registered) ==
            /\ Len(old) <= Len(new)
            /\ \A i \in DOMAIN old :
                  /\ new[i].url = old[i].url
                  /\ new[i].func # old[i].func =>
                        (registered /\ old[i].url = key)
            /\ \A i, j \in DOMAIN new : new[i].url = new[j].url => i = j
            /\ registered =>
                  /\ Bound(new, key) = reg'.func
                  /\ Bound(old, key) # "" => Len(new) = Len(old)
    IN  /\ op' = "route" =>
            /\ Kept(get_routes, get_routes', Registers(GET))
            /\ Kept(post_routes, post_routes', Registers(POST))
        /\ (op' = "request" /\ resp'.calls # <<>>) =>
            /\ Len(resp'.calls) = 1
            /\ resp'.idx \in DOMAIN Table'
            /\ resp'.calls[1].func = Table'[resp'.idx].func

\* C8: registering a (method, normalized pattern) again keeps one entry
\* for the pattern, at the position it had, bound to the new handler, and
\* changes no other entry; a request that matches an entry invokes the
\* handler the entry is bound to at that time
C8_Reregistration == [][RegistrationStep]_vars

\* the first of two GET routes was registered again with another handler:
\* it is still the first, bound to the handler of the last registration
C8_Witness ==
    /\ op = "route"
    /\ reg.was.get \notin {"", reg.func}
    /\ Len(get_routes) = 2
    /\ get_routes[1] = [url |-> rstrip(reg.url, "/"), func |-> reg.func]

\* C9: a request with query arguments for a registered placeholder-free
\* route that no earlier candidate matches invokes the route's handler with
\* an empty parameter list, the arguments being in Request.args only
C9_QueryKeepsParams ==
    Served =>
        \A i \in DOMAIN Table :
            LET query == split(req.path, "?")
            IN  (/\ Literal(Table[i].url)
                 /\ resp.path = Table[i].url
                 /\ Len(query) > 1
                 /\ \E k \in DOMAIN split(query[2], "&") :
                        Contains(split(query[2], "&")[k], "=")
                 /\ FirstFit(i)) =>
                    /\ resp.exc = "none"
                    /\ resp.idx = i
                    /\ resp.calls = << [func |-> Table[i].func, params |-> <<>>] >>
                    /\ Len(seen) = 1
                    /\ DOMAIN seen[1] # {}

\* the path is the pattern url with every placeholder replaced by a text of
\* its fragment: the typed compilation of a pattern with typed placeholders,
\* the untyped compilation of one with untyped placeholders only
InFragments(url, path) ==
    IF re_findall_convs(url) # <<>>
    THEN MatchAt(re_sub_typed(url), 1, path, 1) # <<>>
    ELSE MatchAt(re_sub_untyped(url), 1, path, 1) # <<>>

\* C10: a typed or untyped route is not matched by a path whose text at a
\* placeholder is not of the placeholder's fragment (digits for int, digits
\* "." digits for float, a non-empty text without "/" otherwise): the
\* handler of that route is not invoked for the request, and the scan goes
\* on to the remaining candidates, ending in NOT_FOUND when none of them
\* matches
C10_FragmentMismatch ==
    Served =>
        \A i \in DOMAIN Table :
            (~Literal(Table[i].url) /\ ~InFragments(Table[i].url, resp.path)) =>
                /\ resp.idx # i
                /\ (\A j \in DOMAIN Table :
                        j # i => ~Matches(Table[j].url, resp.path)) =>
                      /\ resp.exc = "none"
                      /\ resp.status = 404
                      /\ resp.calls = <<>>

\* the method name m is name in some letter case
Names(m, name) ==
    LET Lower(c) == IF \E i \in DOMAIN UpperLetters : UpperLetters[i] = c
                    THEN LowerLetters[CHOOSE i \in DOMAIN UpperLetters :
                                          UpperLetters[i] = c]
                    ELSE c
    IN  /\ Len(m) = Len(name)
        /\ \A i \in DOMAIN m : m[i] \in {name[i], Lower(name[i])}

\* C11: a route call succeeds exactly when every method name is GET or
\* POST in some letter case, and then each named table binds the url to
\* the function (so a route registered with "get" is a GET candidate); for
\* any other method name the call raises ValueError
C11_MethodNames ==
    LET ms == IF reg.method.isList THEN reg.method.lst ELSE << reg.method.str >>
        IsGet(m) == Names(m, <<"G","E","T">>)
        IsPost(m) == Names(m, <<"P","O","S","T">>)
        Valid(k) == \A j \in 1..k : IsGet(ms[j]) \/ IsPost(ms[j])
        key == rstrip(reg.url, "/")
    IN  op = "route" =>
            /\ reg.exc = "none" <=> Valid(Len(ms))
            /\ reg.exc # "none" => reg.exc = "ValueError"
            /\ \A k \in DOMAIN ms :
                  /\ (Valid(k) /\ IsGet(ms[k])) =>
                        Bound(get_routes, key) = reg.func
                  /\ (Valid(k) /\ IsPost(ms[k])) =>
                        Bound(post_routes, key) = reg.func

\* a route was registered with the method "get" and is in the GET table
C11_Witness ==
    /\ op = "route"
    /\ reg.method = MethodStr(<<"g","e","t">>)
    /\ reg.exc = "none"
    /\ Bound(get_routes, rstrip(reg.url, "/")) = reg.func
    /\ post_routes = <<>>

\* C12: the handler a request invokes is that of the first candidate, in
\* the insertion order of the request's method table, that one of the match
\* rules matches; the handler of a later candidate is not invoked, also
\* when the later candidate equals the path and the earlier one matches it
\* only through a placeholder; a request invokes at most one handler
C12_FirstMatch ==
    Served =>
        /\ Len(resp.calls) <= 1
        /\ resp.calls # <<>> =>
              /\ resp.idx \in DOMAIN Table
              /\ Matches(Table[resp.idx].url, resp.path)
              /\ FirstFit(resp.idx)
              /\ resp.calls[1].func = Table[resp.idx].func
        /\ (resp.exc = "none" /\ resp.calls = <<>>) =>
              \A i \in DOMAIN Table : ~Matches(Table[i].url, resp.path)

\* the path /a was dispatched to the earlier candidate /<s>, which matches
\* it through its placeholder, and not to the later candidate /a
C12_Witness ==
    /\ Served
    /\ resp.path = UrlA
    /\ Len(Table) = 2
    /\ Table[1].url = UrlSeg
    /\ Table[2].url = UrlA
    /\ Table[1].func # Table[2].func
    /\ resp.idx = 1
    /\ resp.rule = "untyped"
    /\ resp.calls = << [func |-> Table[1].func, params |-> << PyStr(<<"a">>) >>] >>

\* the map the text after "?" in raw stands for: the text is split on "&",
\* a part with "=" gives the key before its first "=" and the value after
\* it, a part without "=" gives nothing, a repeated key keeps the last value
QueryMap(raw) ==
    IF ~Contains(raw, "?") THEN EmptyDict
    ELSE
    LET q == SubSeq(raw, IndexOf(raw, "?") + 1, Len(raw))
        parts == split(q, "&")
        WithEq == { k \in DOMAIN parts : Contains(parts[k], "=") }
        Key(k) == SubSeq(parts[k], 1, IndexOf(parts[k], "=") - 1)
        Value(k) == SubSeq(parts[k], IndexOf(parts[k], "=") + 1, Len(parts[k]))
        Last(key) == CHOOSE k \in WithEq :
                        /\ Key(k) = key
                        /\ \A j \in WithEq : Key(j) = key => j <= k
    IN  [key \in { Key(k) : k \in WithEq } |-> Value(Last(key))]

\* C13: the query string of every request parses into a map and the
\* parsing never fails: the text after "?" is split on "&", a part with
\* "=" gives the key before its first "=" and the value after it (so x=1=2
\* gives x -> 1=2), a part without "=" is dropped, and a repeated key keeps
\* its last value
C13_QueryParsing ==
    (Served /\ Contains(req.path, "?")) =>
        /\ resp.exc # "ValueError"
        /\ Request_args = QueryMap(req.path)

\* the handler a request invoked read the arguments of that request
OwnArguments ==
    (Served /\ resp.calls # <<>>) => seen = << QueryMap(req.path) >>

\* the arguments of a request are gone when no dispatch call is under way
NothingOutlives ==
    (\A w \in Workers : workers[w] = NoReq) => Request_args = EmptyDict

\* C14: with the steps of two dispatch calls interleaved, each run by its
\* own worker, the query arguments a handler reads during its invocation
\* are those of its own request, never those of the other request, and no
\* argument state outlives the dispatch call that produced it
C14_SnapshotPerRequest == OwnArguments /\ NothingOutlives

\* C15: a pattern without placeholders is a literal pattern: a request is
\* dispatched to its handler only when the normalized path equals the
\* normalized pattern character for character, also when the pattern holds
\* a regular-expression operator such as "."
C15_LiteralPattern ==
    Served =>
        \A i \in DOMAIN Table :
            (Literal(Table[i].url) /\ resp.idx = i) =>
                /\ resp.path = Table[i].url
                /\ resp.rule = "exact"
                /\ resp.calls = << [func |-> Table[i].func, params |-> <<>>] >>

\* url has a typed placeholder and an untyped one
Mixed(url) ==
    /\ re_findall_convs(url) # <<>>
    /\ \E k \in DOMAIN re_sub_untyped(url) : re_sub_untyped(url)[k].t = "grp"

\* C16: a pattern with typed and untyped placeholders is matched as a typed
\* pattern only, its untyped placeholders being literal text: a request
\* dispatched to it matched its typed compilation, the untyped rule never
\* matches it and no parameter is a value captured by an untyped placeholder
C16_MixedIsTyped ==
    Served =>
        \A i \in DOMAIN Table :
            (Mixed(Table[i].url) /\ resp.idx = i) =>
                /\ resp.rule # "untyped"
                /\ MatchAt(re_sub_typed(Table[i].url), 1, resp.path, 1) # <<>>
                /\ Len(resp.calls[1].params) = Len(re_findall_convs(Table[i].url))

\* a route call that raises leaves both route tables as they were
FailedRouteStep ==
    (op' = "route" /\ reg'.exc # "none") =>
        /\ get_routes' = get_routes
        /\ post_routes' = post_routes

\* C17: a registration call that fails with ValueError leaves both route
\* tables exactly as they were before the call, also when the method list
\* names a valid method before the invalid one, as in ["GET", "PUT"]
C17_FailedRegistration == [][FailedRouteStep]_vars

\* C18: with the requests served one at a time, the arguments a handler
\* reads during its invocation are the map parsed from the query string of
\* the request being dispatched, whatever the requests before it were; a
\* request without a query string reads an empty map
C18_SerialArguments ==
    (Served /\ resp.calls # <<>>) =>
        /\ seen = << QueryMap(req.path) >>
        /\ ~Contains(req.path, "?") => seen = << EmptyDict >>

\* a request without a query string, served after one that carried
\* arguments, invoked a handler that read an empty map
C18_Witness ==
    /\ Served
    /\ DOMAIN req.before # {}
    /\ ~Contains(req.path, "?")
    /\ Len(resp.calls) = 1
    /\ seen = << EmptyDict >>

\* a step keeps the two tables apart: a route call that does not name POST
\* leaves the POST table as it is, one that does not name GET leaves the GET
\* table as it is; a dispatch call changes neither table, and the handler
\* it invokes is bound in the table of the request's own method
IndependentStep ==
    LET ms == IF reg'.method.isList THEN reg'.method.lst ELSE << reg'.method.str >>
        own == IF req'.method = "POST" THEN post_routes' ELSE get_routes'
    IN  /\ op' = "route" =>
              /\ (\A k \in DOMAIN ms : ~Names(ms[k], <<"P","O","S","T">>)) =>
                     post_routes' = post_routes
              /\ (\A k \in DOMAIN ms : ~Names(ms[k], <<"G","E","T">>)) =>
                     get_routes' = get_routes
        /\ op' = "request" =>
              /\ get_routes' = get_routes
              /\ post_routes' = post_routes
              /\ req'.method \in {"GET", "POST"}
              /\ resp'.calls # <<>> =>
                    /\ resp'.idx \in DOMAIN own
                    /\ resp'.calls[1].func = own[resp'.idx].func
                    /\ Matches(own[resp'.idx].url, resp'.path)

\* C19: the GET and POST tables are independent: registering a route for
\* one method leaves the other method's table unchanged, dispatch never
\* changes either table, and a request of one method is never dispatched to
\* a handler registered only for the other method
C19_IndependentTables == [][IndependentStep]_vars

\* a POST request to a path registered for GET only was answered 404 with
\* no handler invoked
C19_Witness ==
    /\ Served
    /\ req.method = "POST"
    /\ \E i \in DOMAIN get_routes : get_routes[i].url = resp.path
    /\ \A i \in DOMAIN post_routes : post_routes[i].url # resp.path
    /\ get_routes[1].func = "h1"
    /\ resp.status = 404
    /\ resp.calls = <<>>

====
